---- MODULE Spec2Model ----
(***************************************************************************)
(* Model of the nightmare module parser (src/src/lib.rs): from_file, the   *)
(* auxiliary readers it calls, build_component and parse_int.              *)
(*                                                                         *)
(* Text is modelled as a sequence of one-character strings, so that trim,  *)
(* split, starts_with and digit parsing are computed character by          *)
(* character as the code does.  A file is a sequence of lines.             *)
(***************************************************************************)
EXTENDS Integers, Sequences, FiniteSets, TLC

VARIABLES
    i,                              \* from_file: lines taken from the module file so far
    read_state,                     \* from_file: ReadState
    result,                         \* from_file: the Module being built
    current_component_desc,         \* from_file: Option<String>
    current_component_offset,       \* from_file: u32
    current_component_length,       \* from_file: u32
    current_component_kind_str,     \* from_file: Option<String>
    ret,                            \* from_file: what the call returned, or Running
    opened,                         \* paths handed to File::open after the module file, in order
    sig,                            \* history: the raw significant lines consumed so far
    skipped,                        \* history: number of blank/comment lines skipped so far
    db,                             \* read_component_dropbox_entries: its locals and return value
    db_lines,                       \* history: the lines of the dropbox file read so far
    pi_input,                       \* parse_int: the token
    pi_ret,                         \* parse_int: what the call returned, or Running
    cs,                             \* read_charset: the map built so far and the return value
    cs_lines                        \* history: the lines of the charset file read so far

vars == <<i, read_state, result, current_component_desc, current_component_offset,
          current_component_length, current_component_kind_str, ret, opened, sig,
          skipped, db, db_lines, pi_input, pi_ret, cs, cs_lines>>

parserVars == <<i, read_state, result, current_component_desc, current_component_offset,
                current_component_length, current_component_kind_str, ret, opened, sig,
                skipped>>

----------------------------------------------------------------------------
(* Bounds of the model                                                     *)

\* significant lines of the module file: 7 header lines and two 5-line records
MaxSig == 17
\* blank and comment lines in the module file
MaxSkip == 1
\* lines of a dropbox-entries file (header included) in the reader's own specification
MaxDbLines == 4
\* length of the tokens given to parse_int
MaxTokenLen == 3
\* lines of a charset file in the reader's own specification
MaxCsLines == 3

\* A u32 is kept as two 16-bit limbs, value = hi * Limb + lo: u32::MAX itself is
\* beyond the integers TLC computes with.
Limb == 256 * 256
U32(n) == [hi |-> n \div Limb, lo |-> n % Limb]
Zero == U32(0)
\* checked_mul(radix) then checked_add(d): the new value, or overflow
MulAdd(v, radix, d) ==
    LET lo == v.lo * radix + d
        hi == v.hi * radix + lo \div Limb
    IN [overflow |-> hi >= Limb, val |-> [hi |-> hi % Limb, lo |-> lo % Limb]]
\* v - 1, for v > 0
Decrement(v) ==
    IF v.lo > 0 THEN [v EXCEPT !.lo = @ - 1] ELSE [hi |-> v.hi - 1, lo |-> Limb - 1]
\* `v as u8`
AsU8(v) == v.lo % 256

----------------------------------------------------------------------------
(* Values                                                                  *)

None == [some |-> FALSE]
Some(v) == [some |-> TRUE, val |-> v]

Ok(v) == [ok |-> TRUE, val |-> v]
Err(e) == [ok |-> FALSE, err |-> e]

Running == [done |-> FALSE]
Returned(r) == [done |-> TRUE, res |-> r]

InvalidModuleVersion == [kind |-> "InvalidModuleVersion"]
InvalidComponentKind == [kind |-> "InvalidComponentKind"]
InvalidCharset == [kind |-> "InvalidCharset"]
TooManyComponentEntries == [kind |-> "TooManyComponentEntries"]
UnexpectedEof == [kind |-> "UnexpectedEof"]
Io == [kind |-> "Io"]
ParseIntError(cause) == [kind |-> "ParseInt", source |-> cause]
Located(filename, line, source) ==
    [kind |-> "Located", filename |-> filename, line |-> line, source |-> source]

\* a panic unwinds through every caller: it is no Error value
Panic == [ok |-> FALSE, panic |-> TRUE]
IsPanic(r) == ~r.ok /\ "panic" \in DOMAIN r

\* Result::map_err(f)
MapErrLocated(r, filename, line) ==
    IF r.ok \/ IsPanic(r) THEN r ELSE Err(Located(filename, line, r.err))

----------------------------------------------------------------------------
(* Text                                                                    *)

IsWhitespace(c) == c \in {" ", "\t"}

RECURSIVE TrimStart(_)
TrimStart(s) ==
    IF s # <<>> /\ IsWhitespace(Head(s)) THEN TrimStart(Tail(s)) ELSE s

RECURSIVE TrimEnd(_)
TrimEnd(s) ==
    IF s # <<>> /\ IsWhitespace(s[Len(s)]) THEN TrimEnd(SubSeq(s, 1, Len(s) - 1)) ELSE s

\* str::trim
Trim(s) == TrimEnd(TrimStart(s))

\* str::starts_with(char)
StartsWith(s, c) == s # <<>> /\ Head(s) = c

\* index of the first occurrence of c in s, 0 when there is none
RECURSIVE IndexOf(_, _, _)
IndexOf(s, c, from) ==
    IF from > Len(s) THEN 0
    ELSE IF s[from] = c THEN from
    ELSE IndexOf(s, c, from + 1)

\* a variant that splits at the first occurrence of the separator only
SplitOnce(s, c) ==
    IF IndexOf(s, c, 1) = 0 THEN <<s>>
    ELSE <<SubSeq(s, 1, IndexOf(s, c, 1) - 1), SubSeq(s, IndexOf(s, c, 1) + 1, Len(s))>>

\* str::split(char): every occurrence of the separator splits
RECURSIVE Split(_, _)
SplitAt(s, c, k) ==
    IF k = 0 THEN <<s>>
    ELSE <<SubSeq(s, 1, k - 1)>> \o Split(SubSeq(s, k + 1, Len(s)), c)
Split(s, c) == SplitAt(s, c, IndexOf(s, c, 1))

\* str::splitn(2, char): at most two parts, split at the first occurrence
SplitN2At(s, k) ==
    IF k = 0 THEN <<s>>
    ELSE <<SubSeq(s, 1, k - 1), SubSeq(s, k + 1, Len(s))>>
SplitN2(s, c) == SplitN2At(s, IndexOf(s, c, 1))

\* .map(|s| s.trim()) over the parts of a split
TrimEach(parts) == [j \in 1..Len(parts) |-> Trim(parts[j])]

----------------------------------------------------------------------------
(* parse_int                                                               *)

\* the value of a digit character, -1 for any other character
DigitValue(c) ==
    CASE c = "0" -> 0 [] c = "1" -> 1 [] c = "2" -> 2 [] c = "3" -> 3 [] c = "4" -> 4
      [] c = "5" -> 5 [] c = "6" -> 6 [] c = "7" -> 7 [] c = "8" -> 8 [] c = "9" -> 9
      [] c \in {"a", "A"} -> 10 [] c \in {"b", "B"} -> 11 [] c \in {"c", "C"} -> 12
      [] c \in {"d", "D"} -> 13 [] c \in {"e", "E"} -> 14 [] c \in {"f", "F"} -> 15
      [] OTHER -> -1

\* char::to_digit(radix) for radix <= 16: the digit's value, or -1
InRadix(v, radix) == IF v >= 0 /\ v < radix THEN v ELSE -1
ToDigit(c, radix) == InRadix(DigitValue(c), radix)

\* the digit loop of u32::from_str_radix: checked multiply, checked add
RECURSIVE Accumulate(_, _, _)
AccumulateNext(next, rest, radix) ==
    IF next.overflow THEN Err(ParseIntError("PosOverflow"))
    ELSE Accumulate(rest, radix, next.val)
AccumulateDigit(d, rest, radix, acc) ==
    IF d < 0 THEN Err(ParseIntError("InvalidDigit"))
    ELSE AccumulateNext(MulAdd(acc, radix, d), rest, radix)
Accumulate(digits, radix, acc) ==
    IF digits = <<>> THEN Ok(acc)
    ELSE AccumulateDigit(ToDigit(Head(digits), radix), Tail(digits), radix, acc)

\* the sign handling of u32::from_str_radix: a leading '+' is dropped, '-' is a digit error
StripSign(src) == IF Head(src) = "+" THEN Tail(src) ELSE src

\* u32::from_str_radix: an optional leading '+', then at least one digit
FromStrRadix(src, radix) ==
    IF src = <<>> THEN Err(ParseIntError("Empty"))
    ELSE IF Len(src) = 1 /\ Head(src) \in {"+", "-"} THEN Err(ParseIntError("InvalidDigit"))
    ELSE Accumulate(StripSign(src), radix, Zero)

\* a variant that knows the 0x prefix and reads everything else as decimal
RadixNoOctal(input) ==
    IF StartsWith(input, "0") /\ StartsWith(Tail(input), "x") THEN 16 ELSE 10

\* the radix the prefix selects and the text handed to from_str_radix
Radix(input) ==
    IF StartsWith(input, "0")
    THEN IF StartsWith(Tail(input), "x") THEN 16 ELSE 8
    ELSE 10
Digits(input) ==
    IF StartsWith(input, "0")
    THEN IF StartsWith(Tail(input), "x") THEN Tail(Tail(input)) ELSE Tail(input)
    ELSE input

parse_int(input) ==
    IF StartsWith(input, "0") /\ Tail(input) = <<>> THEN Ok(Zero)
    ELSE FromStrRadix(Digits(input), Radix(input))

----------------------------------------------------------------------------
(* Files                                                                   *)

\* a line that is not valid UTF-8: io::Lines yields Err for it
BadUtf8 == <<"\\xFF">>

NULL == <<"N", "U", "L", "L">>

\* the module file's name, and the path of the dropbox file read on its own
ModulePath == <<"m", "o", "d">>
DbPath == <<"d", "b">>

\* The directory of the module file.  Every other name does not exist.
\*   n: four entry names, a blank and a '#' line      e: an empty file
\*   c: a charset                                     k: a charset with a bad key
\*   d: dropbox entries, a repeated value, a label holding a space
\*   t: a dropbox file with one line more than declared
\*   p: a dropbox file with a line that has no space  u: a file that fails to decode
\*   b: a dropbox file whose third line has a bad value
FileNames ==
    {<<"n">>, <<"e">>, <<"c">>, <<"k">>, <<"d">>, <<"t">>, <<"p">>, <<"u">>, <<"b">>}

FileContents(path) ==
    CASE path = <<"n">> -> << <<"A", "l">>, <<" ">>, <<"#", "x">>, <<" ", "B", " ">> >>
      [] path = <<"e">> -> << >>
      [] path = <<"c">> -> << <<"4", "1", "=", "A">>, <<" ", "4", "2", " ", "=", " ", "B">> >>
      [] path = <<"k">> -> << <<"4", "1", "=", "A">>, <<"0", "x", "1", "=", "B">> >>
      [] path = <<"d">> -> << <<" ", "2">>, <<"1", " ", "O">>, <<"1", " ", "T", " ", "w">> >>
      [] path = <<"t">> -> << <<"1">>, <<"5", " ", "a">>, <<"z">> >>
      [] path = <<"p">> -> << <<"1">>, <<"7">> >>
      [] path = <<"u">> -> << BadUtf8 >>
      [] path = <<"b">> -> << <<"2">>, <<"1", " ", "O">>, <<"z", " ", "y">> >>

\* Path::join(parent_dir, filename): the directory is fixed, the name identifies the file
Join(filename) == filename

\* read_lines: File::open, then the lines
read_lines(path) ==
    IF path \in FileNames THEN Ok(FileContents(path)) ELSE Err(Io)

\* a variant without the sentinel: every line names a file
get_full_filename_always(filename) == Some(Join(filename))

get_full_filename(filename) ==
    IF filename = NULL THEN None ELSE Some(Join(filename))

\* the paths a reader hands to File::open when called with this Option<path>
Opens(filename) == IF filename.some THEN <<filename.val>> ELSE <<>>

----------------------------------------------------------------------------
(* read_module_entries                                                     *)

\* a variant that skips blank lines and comments as the loop over the module file does
RECURSIVE ModuleEntriesLoopSkipping(_, _)
ModuleEntriesLoopSkipping(lines, acc) ==
    IF lines = <<>> THEN Ok(Some(acc))
    ELSE IF Head(lines) = BadUtf8 THEN Err(Io)
    ELSE IF Trim(Head(lines)) = <<>> \/ StartsWith(Trim(Head(lines)), "#")
    THEN ModuleEntriesLoopSkipping(Tail(lines), acc)
    ELSE ModuleEntriesLoopSkipping(Tail(lines), Append(acc, Head(lines)))

\* the loop body: result.push(line?)
RECURSIVE ModuleEntriesLoop(_, _)
ModuleEntriesLoop(lines, acc) ==
    IF lines = <<>> THEN Ok(Some(acc))
    ELSE IF Head(lines) = BadUtf8 THEN Err(Io)
    ELSE ModuleEntriesLoop(Tail(lines), Append(acc, Head(lines)))

ModuleEntriesOf(file) ==
    IF file.ok THEN ModuleEntriesLoop(file.val, <<>>) ELSE file

read_module_entries(filename) ==
    IF filename.some THEN ModuleEntriesOf(read_lines(filename.val)) ELSE Ok(None)

----------------------------------------------------------------------------
(* read_charset                                                            *)

NulChar == "\\x00"

\* a variant that keeps the value a key already has
MapInsertIfAbsent(m, k, v) ==
    [x \in (DOMAIN m) \cup {k} |-> IF x \in DOMAIN m THEN m[x] ELSE v]

\* BTreeMap::insert
MapInsert(m, k, v) == [x \in (DOMAIN m) \cup {k} |-> IF x = k THEN v ELSE m[x]]

EmptyMap == [x \in {} |-> NulChar]

\* split[1].chars().next().unwrap_or('\x00')
FirstChar(s) == IF s = <<>> THEN NulChar ELSE Head(s)

\* a variant that reads the key with the integer-literal rule of the module file
CharsetKeyLiteral(text) == parse_int(text)

\* the key of a charset line
CharsetKey(text) == FromStrRadix(text, 16)

CharsetInsert(map, number, character) ==
    IF ~number.ok THEN number ELSE Ok(MapInsert(map, AsU8(number.val), character))

CharsetSplit(map, idx, split, filename) ==
    IF Len(split) # 2 THEN Err(Located(filename, idx + 1, InvalidCharset))
    ELSE CharsetInsert(map, MapErrLocated(CharsetKey(split[1]), filename, idx + 1),
                       FirstChar(split[2]))

\* one iteration of the loop over the charset file: the map after it, or the error
CharsetLine(map, idx, raw, filename) ==
    IF raw = BadUtf8 THEN Err(Io)
    ELSE CharsetSplit(map, idx, TrimEach(Split(Trim(raw), "=")), filename)

RECURSIVE CharsetLoop(_, _, _, _)
CharsetNext(lines, idx, r, filename) ==
    IF r.ok THEN CharsetLoop(lines, idx + 1, r.val, filename) ELSE r
CharsetLoop(lines, idx, map, filename) ==
    IF idx >= Len(lines) THEN Ok(map)
    ELSE CharsetNext(lines, idx, CharsetLine(map, idx, lines[idx + 1], filename), filename)

\* the reader's locals before the loop
CsStart == [result |-> EmptyMap, ret |-> Running]

\* one turn of the loop on the reader's locals: `?` returns the error
CsStep(st, r) ==
    IF r.ok THEN [st EXCEPT !.result = r.val] ELSE [st EXCEPT !.ret = Returned(r)]

CharsetOf(file, filename) ==
    IF file.ok THEN CharsetLoop(file.val, 0, EmptyMap, filename) ELSE file

read_charset(filename) == CharsetOf(read_lines(filename), filename)

----------------------------------------------------------------------------
(* read_component_dropbox_entries                                          *)

\* the reader's locals before the loop
DbStart == [result |-> <<>>, is_first_line |-> TRUE, entries_left |-> Zero, ret |-> Running]

DbReturn(st, r) == [st EXCEPT !.ret = Returned(r)]

\* the first line: entries_left = parse_int(line).map_err(located_err)?
DbHeader(st, n) ==
    IF n.ok THEN [st EXCEPT !.entries_left = n.val, !.is_first_line = FALSE]
    ELSE DbReturn(st, n)

\* the failure returned when a line comes and entries_left is 0
TooMany(st, filename, idx) == DbReturn(st, Err(TooManyComponentEntries))

\* a variant that pushes the pair and forgets to count it
DbEntryUncounted(st, split, num) ==
    IF ~num.ok THEN DbReturn(st, num)
    ELSE IF Len(split) < 2 THEN DbReturn(st, Panic)
    ELSE [st EXCEPT !.result = Append(@, <<num.val, split[2]>>)]

\* a later line: num is parsed, then split[1] is indexed, then the pair is pushed
DbEntry(st, split, num) ==
    IF ~num.ok THEN DbReturn(st, num)
    ELSE IF Len(split) < 2 THEN DbReturn(st, Panic)
    ELSE [st EXCEPT !.result = Append(@, <<num.val, split[2]>>),
                    !.entries_left = Decrement(@)]

\* a variant that indexes split[1] before the value is parsed
DbSplitIndexFirst(st, split, filename, idx) ==
    IF Len(split) < 2 THEN DbReturn(st, Panic)
    ELSE DbEntry(st, split, MapErrLocated(parse_int(split[1]), filename, idx + 1))

\* split[0] is parsed first; its error returns before split[1] is touched
DbSplit(st, split, filename, idx) ==
    DbEntry(st, split, MapErrLocated(parse_int(split[1]), filename, idx + 1))

\* one iteration of the loop over the dropbox file; idx is enumerate's index
DropboxLine(st, idx, raw, filename) ==
    IF raw = BadUtf8 THEN DbReturn(st, Err(Io))
    ELSE IF st.is_first_line
    THEN DbHeader(st, MapErrLocated(parse_int(Trim(raw)), filename, idx + 1))
    ELSE IF st.entries_left = Zero THEN TooMany(st, filename, idx)
    ELSE DbSplit(st, SplitN2(Trim(raw), " "), filename, idx)

\* the value returned when the lines run out
DbEofResult(st) == Ok(st.result)

RECURSIVE DropboxLoop(_, _, _, _)
DropboxLoop(lines, idx, st, filename) ==
    IF st.ret.done THEN st.ret.res
    ELSE IF idx >= Len(lines) THEN DbEofResult(st)
    ELSE DropboxLoop(lines, idx + 1, DropboxLine(st, idx, lines[idx + 1], filename), filename)

DropboxOf(file, filename) ==
    IF file.ok THEN DropboxLoop(file.val, 0, DbStart, filename) ELSE file

read_component_dropbox_entries(filename) ==
    IF filename.some THEN DropboxOf(read_lines(filename.val), filename.val) ELSE Ok(<<>>)

----------------------------------------------------------------------------
(* build_component                                                         *)

Text == [tag |-> "Text"]
HexArray == [tag |-> "HexArray"]
Number(format) == [tag |-> "Number", format |-> format]
Dropbox(format, entries) == [tag |-> "Dropbox", format |-> format, entries |-> entries]

TEXT == <<"T", "E", "X", "T">>
HEXA == <<"H", "E", "X", "A">>
NEHU == <<"N", "E", "H", "U">>
NEDU == <<"N", "E", "D", "U">>
NEDS == <<"N", "E", "D", "S">>
NDHU == <<"N", "D", "H", "U">>
NDDU == <<"N", "D", "D", "U">>

Component(description, offset, length, kind) ==
    [description |-> description, offset |-> offset, length |-> length, kind |-> kind]

\* a match arm that reads no file
PlainArm(description, offset, length, kind) ==
    [opens |-> <<>>, res |-> Ok(Component(description, offset, length, kind))]

\* a dropbox arm: the reader is called and `?` returns its error
DropboxComponent(description, offset, length, format, entries) ==
    IF entries.ok
    THEN Ok(Component(description, offset, length, Dropbox(format, entries.val)))
    ELSE entries
DropboxArm(description, offset, length, format, dropbox_entry_file) ==
    [opens |-> Opens(dropbox_entry_file),
     res |-> DropboxComponent(description, offset, length, format,
                              read_component_dropbox_entries(dropbox_entry_file))]

\* a variant whose default arm falls back to Text
MatchKindDefaultText(description, offset, length, token, dropbox_entry_file) ==
    CASE token = HEXA -> PlainArm(description, offset, length, HexArray)
      [] token = NEHU -> PlainArm(description, offset, length, Number("Hex"))
      [] token = NEDU -> PlainArm(description, offset, length, Number("Dec"))
      [] token = NEDS -> PlainArm(description, offset, length, Number("DecSigned"))
      [] token = NDHU -> DropboxArm(description, offset, length, "Hex", dropbox_entry_file)
      [] token = NDDU -> DropboxArm(description, offset, length, "Dec", dropbox_entry_file)
      [] OTHER -> PlainArm(description, offset, length, Text)

\* the match on kind_str.trim()
MatchKind(description, offset, length, token, dropbox_entry_file) ==
    CASE token = TEXT -> PlainArm(description, offset, length, Text)
      [] token = HEXA -> PlainArm(description, offset, length, HexArray)
      [] token = NEHU -> PlainArm(description, offset, length, Number("Hex"))
      [] token = NEDU -> PlainArm(description, offset, length, Number("Dec"))
      [] token = NEDS -> PlainArm(description, offset, length, Number("DecSigned"))
      [] token = NDHU -> DropboxArm(description, offset, length, "Hex", dropbox_entry_file)
      [] token = NDDU -> DropboxArm(description, offset, length, "Dec", dropbox_entry_file)
      [] OTHER -> [opens |-> <<>>, res |-> Err(InvalidComponentKind)]

\* a variant that reads the entries file before it looks at the kind
build_component_eager(description, offset, length, kind_str, dropbox_entry_file) ==
    IF read_component_dropbox_entries(dropbox_entry_file).ok
    THEN [opens |-> Opens(dropbox_entry_file),
          res |-> MatchKind(description, offset, length, Trim(kind_str),
                            dropbox_entry_file).res]
    ELSE [opens |-> Opens(dropbox_entry_file),
          res |-> read_component_dropbox_entries(dropbox_entry_file)]

build_component(description, offset, length, kind_str, dropbox_entry_file) ==
    MatchKind(description, offset, length, Trim(kind_str), dropbox_entry_file)

----------------------------------------------------------------------------
(* from_file                                                               *)

\* Module::default()
ModuleDefault ==
    [description |-> <<>>, root_offset |-> Zero, entry_count |-> Zero, entry_length |-> Zero,
     entry_names |-> None, charset |-> None, components |-> <<>>]

\* lines the parser skips: blank, whitespace only, a comment after leading whitespace
SkipLines == {<<>>, <<" ">>, <<" ", "#", "1">>}

\* The fifth line of a record: after a dropbox token every kind of file; after any
\* other token the sentinel, a file that would fail if it were read, a missing file.
DropboxFileMenu(kind_str) ==
    IF Trim(kind_str) \in {NDHU, NDDU}
    THEN {NULL, <<"d">>, <<"e">>, <<"t">>, <<"p">>, <<"c">>, <<"u">>, <<"x">>, <<"b">>}
    ELSE {NULL, <<"t">>, <<"x">>}

\* The lines a module file of the model may hold at the place where the parser is in
\* state rs.  Each menu holds lines the state accepts and lines it rejects; the
\* states that store the raw line are given lines with outer whitespace.
Menu(rs) ==
    CASE rs = "ReadVersion" ->
            {<<" ", "1", " ">>, <<"2">>, <<"0", "1">>}
      [] rs = "ReadDescription" ->
            {<<" ", "D", " ">>}
      [] rs = "ReadRootOffset" ->
            {<<"0", "x", "1", "A">>, <<"0", "8">>}
      [] rs = "ReadEntryCount" ->
            {<<" ", "3">>, NULL}
      [] rs = "ReadEntryLength" ->
            {<<"0", "1", "7">>, <<"+">>}
      [] rs = "ReadEntryNames" ->
            {NULL, <<"n">>, <<"e">>, <<"u">>, <<"n", "u", "l", "l">>}
      [] rs = "ReadCharset" ->
            {NULL, <<" ", "c">>, <<"e">>, <<"k">>, <<"d">>, <<"u">>, <<"x">>}
      [] rs = "ReadNextComponentDescription" ->
            {<<" ", "A">>, <<"B", " ">>}
      [] rs = "ReadComponentOffset" ->
            {<<"0", "x", "1", "0">>, <<"z">>}
      [] rs = "ReadComponentLength" ->
            {<<"0", "2">>, <<"-", "1">>}
      [] rs = "ReadComponentKind" ->
            {TEXT, HEXA, NEHU, NEDU, NEDS, NDHU, <<" ", "N", "D", "D", "U", " ">>,
             <<"A", "B", "C", "D">>, <<"t", "e", "x", "t">>}
      [] rs = "ReadComponentDropboxEntriesAndEnd" ->
            DropboxFileMenu(current_component_kind_str.val)

Offered(rs) == Menu(rs) \cup SkipLines \cup {BadUtf8}

\* a variant that skips empty lines and takes comments for content
IsSkippedBlankOnly(line) == line = <<>>

\* the two `continue` tests at the top of the loop body, on the trimmed line
IsSkipped(line) == line = <<>> \/ StartsWith(line, "#")

\* a line the match is reached with
Significant(line_str) == line_str # BadUtf8 /\ ~IsSkipped(Trim(line_str))

\* a variant that numbers the significant lines only
located_err_ordinal(r) == MapErrLocated(r, ModulePath, Len(sig) + 1)

\* the closure located_err of the loop over the module file
located_err(r) == MapErrLocated(r, ModulePath, i + 1)

\* the iterator yields one more item of the module file and the match is reached
Taken(line_str) ==
    /\ i' = i + 1
    /\ sig' = Append(sig, line_str)
    /\ skipped' = skipped

\* a variant that goes on reading after a failure
CanReadAfterError(rs) == read_state = rs /\ Len(sig) < MaxSig

\* the loop is still running, in state rs, and the file has another line
CanRead(rs) == ret = Running /\ read_state = rs /\ Len(sig) < MaxSig

\* `?` on a result: return the error, or go on to the next state
Return(r) == ret' = Returned(r) /\ read_state' = read_state
Goto(rs) == ret' = ret /\ read_state' = rs

readerVars == <<db, db_lines, pi_input, pi_ret, cs, cs_lines>>
componentVars == <<current_component_desc, current_component_offset,
                   current_component_length, current_component_kind_str>>

ParserInit ==
    /\ i = 0
    /\ read_state = "ReadVersion"
    /\ result = ModuleDefault
    /\ current_component_desc = None
    /\ current_component_offset = Zero
    /\ current_component_length = Zero
    /\ current_component_kind_str = None
    /\ ret = Running
    /\ opened = <<>>
    /\ sig = <<>>
    /\ skipped = 0

DbIdle == db = DbStart /\ db_lines = <<>>
PiIdle == pi_input = <<>> /\ pi_ret = Running
CsIdle == cs = CsStart /\ cs_lines = <<>>

Init == ParserInit /\ DbIdle /\ PiIdle /\ CsIdle

\* read_lines(&filename)? fails: the module file cannot be opened
OpenError ==
    /\ ret = Running /\ i = 0
    /\ ret' = Returned(Err(Io))
    /\ UNCHANGED <<i, read_state, result, componentVars, opened, sig, skipped, readerVars>>

\* `let line_str = line?` fails
LineError ==
    /\ ret = Running /\ Len(sig) < MaxSig
    /\ BadUtf8 \in Offered(read_state)
    /\ ret' = Returned(Err(Io))
    /\ i' = i + 1
    /\ UNCHANGED <<read_state, result, componentVars, opened, sig, skipped, readerVars>>

\* a blank line or a comment: continue
SkipLine ==
    /\ ret = Running /\ skipped < MaxSkip
    /\ \E line_str \in Offered(read_state) :
          /\ line_str # BadUtf8 /\ IsSkipped(Trim(line_str))
          /\ i' = i + 1
          /\ skipped' = skipped + 1
    /\ UNCHANGED <<read_state, result, componentVars, ret, opened, sig, readerVars>>

\* a variant that wraps the version error like the errors of the integer fields
VersionArmLocated(line) ==
    IF line = <<"1">> THEN Goto("ReadDescription")
    ELSE Return(located_err(Err(InvalidModuleVersion)))

\* the version arm, on the trimmed line
VersionArm(line) ==
    IF line = <<"1">> THEN Goto("ReadDescription") ELSE Return(Err(InvalidModuleVersion))

ReadVersion ==
    /\ CanRead("ReadVersion")
    /\ \E line_str \in Offered(read_state) :
          /\ Significant(line_str)
          /\ Taken(line_str)
          /\ VersionArm(Trim(line_str))
    /\ UNCHANGED <<result, componentVars, opened, readerVars>>

ReadDescription ==
    /\ CanRead("ReadDescription")
    /\ \E line_str \in Offered(read_state) :
          /\ Significant(line_str)
          /\ Taken(line_str)
          /\ result' = [result EXCEPT !.description = line_str]
          /\ Goto("ReadRootOffset")
    /\ UNCHANGED <<componentVars, opened, readerVars>>

\* result.<field> = parse_int(line).map_err(located_err)?; read_state = <next>
StoreField(r, field, next) ==
    IF r.ok
    THEN result' = [result EXCEPT ![field] = r.val] /\ Goto(next)
    ELSE result' = result /\ Return(r)

ReadRootOffset ==
    /\ CanRead("ReadRootOffset")
    /\ \E line_str \in Offered(read_state) :
          /\ Significant(line_str)
          /\ Taken(line_str)
          /\ StoreField(located_err(parse_int(Trim(line_str))), "root_offset", "ReadEntryCount")
    /\ UNCHANGED <<componentVars, opened, readerVars>>

ReadEntryCount ==
    /\ CanRead("ReadEntryCount")
    /\ \E line_str \in Offered(read_state) :
          /\ Significant(line_str)
          /\ Taken(line_str)
          /\ StoreField(located_err(parse_int(Trim(line_str))), "entry_count", "ReadEntryLength")
    /\ UNCHANGED <<componentVars, opened, readerVars>>

ReadEntryLength ==
    /\ CanRead("ReadEntryLength")
    /\ \E line_str \in Offered(read_state) :
          /\ Significant(line_str)
          /\ Taken(line_str)
          /\ StoreField(located_err(parse_int(Trim(line_str))), "entry_length", "ReadEntryNames")
    /\ UNCHANGED <<componentVars, opened, readerVars>>

\* the entry-names arm: read_module_entries(get_full_filename(parent_dir, line))?
EntryNamesArm(filename) ==
    /\ opened' = opened \o Opens(filename)
    /\ StoreField(read_module_entries(filename), "entry_names", "ReadCharset")

ReadEntryNames ==
    /\ CanRead("ReadEntryNames")
    /\ \E line_str \in Offered(read_state) :
          /\ Significant(line_str)
          /\ Taken(line_str)
          /\ EntryNamesArm(get_full_filename(Trim(line_str)))
    /\ UNCHANGED <<componentVars, readerVars>>

\* a variant that wraps the charset reader's error once more, at the referencing line
StoreCharsetRewrapped(r) ==
    IF r.ok
    THEN result' = [result EXCEPT !.charset = Some(r.val)]
         /\ Goto("ReadNextComponentDescription")
    ELSE result' = result /\ Return(MapErrLocated(r, ModulePath, i + 1))

\* Some(filename) => { result.charset = Some(read_charset(filename)?); }
StoreCharset(r) ==
    IF r.ok
    THEN result' = [result EXCEPT !.charset = Some(r.val)]
         /\ Goto("ReadNextComponentDescription")
    ELSE result' = result /\ Return(r)

\* the charset arm: the match on get_full_filename(parent_dir, line)
CharsetArm(filename) ==
    /\ opened' = opened \o Opens(filename)
    /\ IF filename.some
       THEN StoreCharset(read_charset(filename.val))
       ELSE result' = result /\ Goto("ReadNextComponentDescription")

ReadCharset ==
    /\ CanRead("ReadCharset")
    /\ \E line_str \in Offered(read_state) :
          /\ Significant(line_str)
          /\ Taken(line_str)
          /\ CharsetArm(get_full_filename(Trim(line_str)))
    /\ UNCHANGED <<componentVars, readerVars>>

ReadNextComponentDescription ==
    /\ CanRead("ReadNextComponentDescription")
    /\ \E line_str \in Offered(read_state) :
          /\ Significant(line_str)
          /\ Taken(line_str)
          /\ current_component_desc' = Some(line_str)
          /\ Goto("ReadComponentOffset")
    /\ UNCHANGED <<result, current_component_offset, current_component_length,
                   current_component_kind_str, opened, readerVars>>

StoreOffset(r) ==
    IF r.ok
    THEN current_component_offset' = r.val /\ Goto("ReadComponentLength")
    ELSE current_component_offset' = current_component_offset /\ Return(r)

ReadComponentOffset ==
    /\ CanRead("ReadComponentOffset")
    /\ \E line_str \in Offered(read_state) :
          /\ Significant(line_str)
          /\ Taken(line_str)
          /\ StoreOffset(located_err(parse_int(Trim(line_str))))
    /\ UNCHANGED <<result, current_component_desc, current_component_length,
                   current_component_kind_str, opened, readerVars>>

StoreLength(r) ==
    IF r.ok
    THEN current_component_length' = r.val /\ Goto("ReadComponentKind")
    ELSE current_component_length' = current_component_length /\ Return(r)

ReadComponentLength ==
    /\ CanRead("ReadComponentLength")
    /\ \E line_str \in Offered(read_state) :
          /\ Significant(line_str)
          /\ Taken(line_str)
          /\ StoreLength(located_err(parse_int(Trim(line_str))))
    /\ UNCHANGED <<result, current_component_desc, current_component_offset,
                   current_component_kind_str, opened, readerVars>>

ReadComponentKind ==
    /\ CanRead("ReadComponentKind")
    /\ \E line_str \in Offered(read_state) :
          /\ Significant(line_str)
          /\ Taken(line_str)
          /\ current_component_kind_str' = Some(line_str)
          /\ Goto("ReadComponentDropboxEntriesAndEnd")
    /\ UNCHANGED <<result, current_component_desc, current_component_offset,
                   current_component_length, opened, readerVars>>

\* a variant that inserts at the front, reversing the declaration order
PushFront(components, component) == <<component>> \o components

\* result.components.push(...)
Push(components, component) == Append(components, component)

\* a variant that builds the component and forgets to keep it
PushBuiltDropped(built) ==
    /\ opened' = opened \o built.opens
    /\ IF built.res.ok
       THEN result' = result /\ Goto("ReadNextComponentDescription")
       ELSE result' = result /\ Return(built.res)

\* result.components.push(build_component(...)?); read_state = ReadNextComponentDescription
PushBuilt(built) ==
    /\ opened' = opened \o built.opens
    /\ IF built.res.ok
       THEN result' = [result EXCEPT !.components = Push(@, built.res.val)]
            /\ Goto("ReadNextComponentDescription")
       ELSE result' = result /\ Return(built.res)

ReadComponentDropboxEntriesAndEnd ==
    /\ CanRead("ReadComponentDropboxEntriesAndEnd")
    /\ \E line_str \in Offered(read_state) :
          /\ Significant(line_str)
          /\ Taken(line_str)
          /\ PushBuilt(build_component(current_component_desc.val,
                                       current_component_offset,
                                       current_component_length,
                                       current_component_kind_str.val,
                                       get_full_filename(Trim(line_str))))
    \* Option::take() leaves None behind, before build_component is called
    /\ current_component_desc' = None
    /\ current_component_kind_str' = None
    /\ UNCHANGED <<current_component_offset, current_component_length, readerVars>>

\* a variant that takes the end of the header for the component boundary too early
EofResultAfterEntryNames(rs, module) ==
    IF rs \in {"ReadNextComponentDescription", "ReadCharset"}
    THEN Ok(module) ELSE Err(UnexpectedEof)

\* the match on read_state after the loop
EofResult(rs, module) ==
    IF rs = "ReadNextComponentDescription" THEN Ok(module) ELSE Err(UnexpectedEof)

\* the module file has no more lines
Eof ==
    /\ ret = Running
    /\ ret' = Returned(EofResult(read_state, result))
    /\ UNCHANGED <<i, read_state, result, componentVars, opened, sig, skipped, readerVars>>

Next ==
    \/ OpenError
    \/ LineError
    \/ SkipLine
    \/ ReadVersion
    \/ ReadDescription
    \/ ReadRootOffset
    \/ ReadEntryCount
    \/ ReadEntryLength
    \/ ReadEntryNames
    \/ ReadCharset
    \/ ReadNextComponentDescription
    \/ ReadComponentOffset
    \/ ReadComponentLength
    \/ ReadComponentKind
    \/ ReadComponentDropboxEntriesAndEnd
    \/ Eof

Spec == Init /\ [][Next]_vars

----------------------------------------------------------------------------
(* read_component_dropbox_entries, line by line, on a file of its own      *)

\* the lines a dropbox file of the model may hold: counts, entries (a repeated value,
\* a label holding a space, surrounding whitespace), and malformed lines
DbMenu ==
    {<<"0">>, <<" ", "2">>, <<"0", "3">>, <<"x">>,
     <<"1", " ", "O">>, <<"1", " ", "T", " ", "w">>, <<" ", "0", "x", "A", " ", "Z", " ">>,
     <<"7">>, <<"z", " ", "y">>, <<>>, BadUtf8}

DbInit ==
    /\ ParserInit /\ PiIdle /\ CsIdle
    /\ db = DbStart
    /\ db_lines = <<>>

\* read_lines(&filename)? fails
DbOpenError ==
    /\ ~db.ret.done /\ db_lines = <<>>
    /\ db' = DbReturn(db, Err(Io))
    /\ UNCHANGED <<parserVars, db_lines, pi_input, pi_ret, cs, cs_lines>>

\* one turn of the loop
DbReadLine ==
    /\ ~db.ret.done /\ Len(db_lines) < MaxDbLines
    /\ \E raw \in DbMenu :
          /\ db' = DropboxLine(db, Len(db_lines), raw, DbPath)
          /\ db_lines' = Append(db_lines, raw)
    /\ UNCHANGED <<parserVars, pi_input, pi_ret, cs, cs_lines>>

\* the file has no more lines: return Ok(result)
DbEof ==
    /\ ~db.ret.done
    /\ db' = DbReturn(db, DbEofResult(db))
    /\ UNCHANGED <<parserVars, db_lines, pi_input, pi_ret, cs, cs_lines>>

DbNext == DbOpenError \/ DbReadLine \/ DbEof

SpecDropbox == DbInit /\ [][DbNext]_vars

----------------------------------------------------------------------------
(* read_charset, line by line, on a file of its own                        *)

CsPath == <<"c", "s">>

\* the lines a charset file of the model may hold: keys that repeat, keys above FF
\* that fall on the same byte, a key with a leading 0, an empty right side, right
\* sides holding '=', lines without '=', keys that are no hex number
CsMenu ==
    {<<"4", "1", "=", "A">>, <<" ", "4", "1", " ", "=", " ", "B", "c", " ">>,
     <<"1", "4", "1", "=", "C">>, <<"0", "1", "0", "=", "D">>, <<"4", "2", "=">>,
     <<"3", "D", "=", "=">>, <<"4", "1", "=", "A", "=", "B">>,
     <<"4", "1">>, <<>>, <<"0", "x", "4", "1", "=", "E">>, <<"=", "F">>, <<"+", "4", "2", "=", "H">>,
     <<"1", "0", "0", "0", "0", "0", "0", "0", "0", "=", "G">>, BadUtf8}

CsInit ==
    /\ ParserInit /\ DbIdle /\ PiIdle
    /\ cs = CsStart
    /\ cs_lines = <<>>

\* read_lines(&filename)? fails
CsOpenError ==
    /\ ~cs.ret.done /\ cs_lines = <<>>
    /\ cs' = [cs EXCEPT !.ret = Returned(Err(Io))]
    /\ UNCHANGED <<parserVars, db, db_lines, pi_input, pi_ret, cs_lines>>

\* one turn of the loop
CsReadLine ==
    /\ ~cs.ret.done /\ Len(cs_lines) < MaxCsLines
    /\ \E raw \in CsMenu :
          /\ cs' = CsStep(cs, CharsetLine(cs.result, Len(cs_lines), raw, CsPath))
          /\ cs_lines' = Append(cs_lines, raw)
    /\ UNCHANGED <<parserVars, db, db_lines, pi_input, pi_ret>>

\* the file has no more lines: return Ok(result)
CsEof ==
    /\ ~cs.ret.done
    /\ cs' = [cs EXCEPT !.ret = Returned(Ok(cs.result))]
    /\ UNCHANGED <<parserVars, db, db_lines, pi_input, pi_ret, cs_lines>>

CsNext == CsOpenError \/ CsReadLine \/ CsEof

SpecCharset == CsInit /\ [][CsNext]_vars

----------------------------------------------------------------------------
(* parse_int, on every token of a bounded alphabet                         *)

PiAlphabet == {"0", "1", "7", "8", "9", "x", "A", "f", "+", "-"}

\* tokens at the edges of the u32 range, and the examples of the grammar
LongTokens ==
    {<<"4", "2", "9", "4", "9", "6", "7", "2", "9", "5">>,
     <<"4", "2", "9", "4", "9", "6", "7", "2", "9", "6">>,
     <<"0", "x", "F", "F", "F", "F", "F", "F", "F", "F">>,
     <<"0", "x", "1", "0", "0", "0", "0", "0", "0", "0", "0">>,
     <<"0", "3", "7", "7", "7", "7", "7", "7", "7", "7", "7", "7">>,
     <<"0", "4", "0", "0", "0", "0", "0", "0", "0", "0", "0", "0">>,
     <<"0", "x", "0", "0", "0", "0", "0", "0", "0", "0", "1", "A">>,
     <<"0", "x", "1", "A">>, <<"0", "x", "+", "1", "A">>}

Tokens ==
    UNION {[1..n -> PiAlphabet] : n \in 0..MaxTokenLen} \cup LongTokens

PiInit ==
    /\ ParserInit /\ DbIdle /\ CsIdle
    /\ pi_input \in Tokens
    /\ pi_ret = Running

ParseIntCall ==
    /\ ~pi_ret.done
    /\ pi_ret' = Returned(parse_int(pi_input))
    /\ UNCHANGED <<parserVars, db, db_lines, pi_input, cs, cs_lines>>

PiNext == ParseIntCall

SpecParseInt == PiInit /\ [][PiNext]_vars

----------------------------------------------------------------------------
(* Properties of from_file                                                 *)

\* a small u32 as an integer
ToInt(v) == v.hi * Limb + v.lo

KindTokens == {TEXT, HEXA, NEHU, NEDU, NEDS, NDHU, NDDU}
DropboxTokens == {NDHU, NDDU}

HeaderLines == 7
RecordLines == 5

\* the n-th line (1..5) of the j-th component record of the module file
RecordLine(j, n) == sig[HeaderLines + RecordLines * (j - 1) + n]
\* the number of complete component records among the significant lines
Records == IF Len(sig) < HeaderLines THEN 0 ELSE (Len(sig) - HeaderLines) \div RecordLines
\* the significant lines are 7 + 5k for some k >= 0
WholeRecords == Len(sig) >= HeaderLines /\ (Len(sig) - HeaderLines) % RecordLines = 0

Succeeded == ret.done /\ ret.res.ok
Failed == ret.done /\ ~ret.res.ok
FailedWith(e) == ret.done /\ ret.res = Err(e)
\* the last item taken from the module file could not be decoded
DecodeFailed == FailedWith(Io) /\ i > Len(sig) + skipped

\* C1: when the input is exhausted, from_file returns Ok if and only if the number
\* of significant lines is 7 + 5k (the state is ReadNextComponentDescription), and
\* returns UnexpectedEof in every other state, the empty file included.
C1_EofOutcome ==
    [][Eof => IF WholeRecords
              THEN ret'.res.ok /\ read_state = "ReadNextComponentDescription"
              ELSE ret'.res = Err(UnexpectedEof)
                   /\ read_state # "ReadNextComponentDescription"]_vars

C1_Witness == Succeeded /\ Len(sig) = HeaderLines + RecordLines

\* the (value, label) pair a dropbox-entries line stands for
PairOf(raw) ==
    LET t == Trim(raw)
        k == IndexOf(t, " ", 1)
    IN <<parse_int(SubSeq(t, 1, k - 1)).val, SubSeq(t, k + 1, Len(t))>>

\* the entries listed in the file a record's fifth line names, in file order
ListedEntries(ref) ==
    IF ref = NULL THEN <<>>
    ELSE [n \in 1..(Len(FileContents(ref)) - 1) |-> PairOf(FileContents(ref)[n + 1])]

\* the kind table of the format
KindFor(token, ref) ==
    CASE token = TEXT -> Text
      [] token = HEXA -> HexArray
      [] token = NEHU -> Number("Hex")
      [] token = NEDU -> Number("Dec")
      [] token = NEDS -> Number("DecSigned")
      [] token = NDHU -> Dropbox("Hex", ListedEntries(ref))
      [] token = NDDU -> Dropbox("Dec", ListedEntries(ref))

\* the component the j-th record describes
RecordComponent(j) ==
    [description |-> RecordLine(j, 1),
     offset |-> parse_int(Trim(RecordLine(j, 2))).val,
     length |-> parse_int(Trim(RecordLine(j, 3))).val,
     kind |-> KindFor(Trim(RecordLine(j, 4)), Trim(RecordLine(j, 5)))]

\* C2: on success over 7 + 5k significant lines, components has exactly k elements
\* and the j-th is built from the j-th five-line record, in file order: raw
\* description, parsed offset and length, kind from the token, dropbox entries in
\* the order of the referenced file.
C2_ComponentsFollowRecords ==
    Succeeded =>
        /\ Len(ret.res.val.components) = Records
        /\ \A j \in 1..Records : ret.res.val.components[j] = RecordComponent(j)

C2_Witness ==
    /\ Succeeded
    /\ Len(ret.res.val.components) = 2
    /\ ret.res.val.components[1].kind = Text
    /\ ret.res.val.components[2].kind.tag = "Dropbox"
    /\ Len(ret.res.val.components[2].kind.entries) = 2
    /\ ret.res.val.components[1].description # ret.res.val.components[2].description

\* C3 as stated: whenever from_file returns Ok(module), module.components is non-empty.
C3_NeverEmpty == Succeeded => ret.res.val.components # <<>>

\* C3, amended: whenever from_file returns Ok(module), module.components is empty
\* exactly when the file holds the 7 header lines and no component record.
C3_EmptyOnlyWithoutRecords ==
    Succeeded => (ret.res.val.components = <<>> <=> Len(sig) = HeaderLines)

C3_Witness == Succeeded /\ ret.res.val.components = <<>> /\ result.charset.some

\* C4: every error from_file returns, other than InvalidModuleVersion, is wrapped
\* in Located with a file name and a 1-based line number.
C4_ErrorsLocated ==
    (Failed /\ ~IsPanic(ret.res) /\ ret.res.err # InvalidModuleVersion) =>
        /\ ret.res.err.kind = "Located"
        /\ ret.res.err.line >= 1

\* C5: if the first significant line, trimmed, is not "1", from_file fails with a
\* bare InvalidModuleVersion, and no later line has been taken and no auxiliary
\* file opened.
C5_BadVersion ==
    (Len(sig) >= 1 /\ Trim(sig[1]) # <<"1">>) =>
        /\ FailedWith(InvalidModuleVersion)
        /\ Len(sig) = 1
        /\ i = skipped + 1
        /\ opened = <<>>

C5_Witness ==
    /\ FailedWith(InvalidModuleVersion)
    /\ sig = << <<"0", "1">> >>
    /\ skipped = 1

\* the first record whose kind line has been consumed and holds no kind token
BadKindRecords ==
    {j \in 1..(Records + 1) :
        /\ Len(sig) >= HeaderLines + RecordLines * (j - 1) + 4
        /\ Trim(RecordLine(j, 4)) \notin KindTokens}
HasBadKind == BadKindRecords # {}
\* the fifth line of some record with a bad kind token has been consumed
BadKindRecordComplete == \E j \in BadKindRecords : j <= Records

\* C6 as stated: a record whose kind token is none of the seven makes from_file fail
\* with InvalidComponentKind, also when the kind line is the last significant line.
C6_AlwaysInvalidKind ==
    (ret.done /\ HasBadKind /\ ~DecodeFailed) => FailedWith(InvalidComponentKind)

\* C6, amended: such a record makes from_file fail with InvalidComponentKind once
\* its fifth line is consumed, wherever the record sits; when the kind line is the
\* last significant line of the file, the result is UnexpectedEof.
C6_InvalidKindAtFifthLine ==
    (ret.done /\ HasBadKind /\ ~DecodeFailed) =>
        IF BadKindRecordComplete
        THEN FailedWith(InvalidComponentKind)
        ELSE FailedWith(UnexpectedEof)

C6_Witness ==
    /\ FailedWith(InvalidComponentKind)
    /\ Len(sig) = HeaderLines + 2 * RecordLines
    /\ Len(result.components) = 1

\* the references to auxiliary files among the significant lines, NULL excluded, in
\* file order: entry names, charset, the fifth line of each dropbox record
RECURSIVE References(_)
References(n) ==
    IF n = 0 THEN <<>>
    ELSE LET isRef ==
                 \/ n \in {6, 7}
                 \/ /\ n > HeaderLines
                    /\ (n - HeaderLines) % RecordLines = 0
                    /\ Trim(sig[n - 1]) \in DropboxTokens
         IN IF isRef /\ Trim(sig[n]) # NULL
            THEN Append(References(n - 1), Trim(sig[n]))
            ELSE References(n - 1)

\* C10: a trimmed NULL in a sentinel position opens no file and leaves entry_names
\* None, charset None, or the dropbox entry list empty; any other text in the
\* entry-names or charset position makes the field Some once the line is accepted,
\* even when the referenced file is empty.
C10_Sentinel ==
    /\ opened = References(Len(sig))
    /\ NULL \notin {opened[n] : n \in 1..Len(opened)}
    /\ Len(sig) >= 6 =>
          IF Trim(sig[6]) = NULL
          THEN result.entry_names = None /\ read_state # "ReadEntryNames"
          ELSE result.entry_names.some \/ (Failed /\ read_state = "ReadEntryNames")
    /\ Len(sig) >= 7 =>
          IF Trim(sig[7]) = NULL
          THEN result.charset = None /\ read_state # "ReadCharset"
          ELSE result.charset.some \/ (Failed /\ read_state = "ReadCharset")
    /\ \A j \in 1..Len(result.components) :
          (Trim(RecordLine(j, 4)) \in DropboxTokens /\ Trim(RecordLine(j, 5)) = NULL)
              => result.components[j].kind.entries = <<>>

C10_Witness ==
    /\ Succeeded
    /\ Trim(sig[6]) = <<"e">> /\ result.entry_names = Some(<<>>)
    /\ Trim(sig[7]) = NULL /\ result.charset = None
    /\ Len(result.components) = 1
    /\ Trim(RecordLine(1, 5)) = NULL
    /\ result.components[1].kind = Dropbox("Hex", <<>>)
    /\ opened = << <<"e">> >>

----------------------------------------------------------------------------
(* Properties of read_component_dropbox_entries                            *)

\* the first line is a count
HeaderValid ==
    /\ Len(db_lines) >= 1
    /\ db_lines[1] # BadUtf8
    /\ parse_int(Trim(db_lines[1])).ok
\* the declared count N
Declared == ToInt(parse_int(Trim(db_lines[1])).val)

\* a "<value> <label>" line
WellFormed(raw) ==
    /\ raw # BadUtf8
    /\ IndexOf(Trim(raw), " ", 1) > 0
    /\ parse_int(SubSeq(Trim(raw), 1, IndexOf(Trim(raw), " ", 1) - 1)).ok

\* the lines after the header read so far, and whether all of them are well-formed
EntryLines == Len(db_lines) - 1
AllWellFormed == \A n \in 2..Len(db_lines) : WellFormed(db_lines[n])

\* a line beyond the declared count has been read, after N well-formed entries
ExcessLineRead ==
    /\ HeaderValid
    /\ Len(db_lines) >= Declared + 2
    /\ \A n \in 2..(Declared + 1) : WellFormed(db_lines[n])
    /\ db_lines[Declared + 2] # BadUtf8

\* C7: when more than N lines follow the header, the reader fails with
\* TooManyComponentEntries positioned at the first excess line (this file, line
\* N + 2), whatever that line holds.
C7_TooManyLocated ==
    ExcessLineRead =>
        /\ db.ret.done
        /\ db.ret.res = Err(Located(DbPath, Declared + 2, TooManyComponentEntries))
        /\ Len(db_lines) = Declared + 2

\* C8: with declared count N and M <= N well-formed lines after the header the
\* reader returns exactly those M pairs in file order, duplicates kept; while it
\* reads, entries_left + length(result) = N, entries_left stays at or above 0 and
\* the result never has more than N elements.
C8_FewerAccepted ==
    /\ (HeaderValid /\ ~db.is_first_line) =>
          /\ ToInt(db.entries_left) + Len(db.result) = Declared
          /\ db.entries_left.hi >= 0 /\ db.entries_left.lo >= 0
          /\ Len(db.result) <= Declared
    /\ (HeaderValid /\ AllWellFormed /\ EntryLines <= Declared) =>
          /\ db.result = [n \in 1..EntryLines |-> PairOf(db_lines[n + 1])]
          /\ db.ret.done => db.ret.res = Ok(db.result)

C8_Witness ==
    /\ db.ret.done /\ db.ret.res.ok
    /\ HeaderValid /\ Declared = 3
    /\ Len(db.ret.res.val) = 2
    /\ db.ret.res.val[1][1] = db.ret.res.val[2][1]
    /\ db.ret.res.val[1] # db.ret.res.val[2]

\* the last line read is within the declared count, comes after well-formed
\* entries, and holds no space once trimmed
LastDb == db_lines[Len(db_lines)]
NoSpaceLineRead ==
    /\ HeaderValid
    /\ Len(db_lines) >= 2
    /\ Len(db_lines) - 1 <= Declared
    /\ \A n \in 2..(Len(db_lines) - 1) : WellFormed(db_lines[n])
    /\ LastDb # BadUtf8
    /\ IndexOf(Trim(LastDb), " ", 1) = 0

\* C14 as stated: every line within the declared count that holds no space causes
\* an index-out-of-range crash, no Error value, whatever the text of the line is.
C14_NoSpacePanics ==
    NoSpaceLineRead => db.ret.done /\ IsPanic(db.ret.res)

\* C14, amended: a line within the declared count that holds no space crashes with
\* an index out of range only when its whole trimmed text is a valid integer
\* literal; when it is not (empty, "x"), the reader returns the ParseInt error
\* of that text, Located at this file and line, and there is no crash.
C14_NoSpaceOutcome ==
    NoSpaceLineRead =>
        /\ db.ret.done
        /\ IF parse_int(Trim(LastDb)).ok
           THEN IsPanic(db.ret.res)
           ELSE db.ret.res = Err(Located(DbPath, Len(db_lines), parse_int(Trim(LastDb)).err))
        /\ LastDb = <<"7">> => IsPanic(db.ret.res)
        /\ LastDb = <<"x">> => ~IsPanic(db.ret.res)

C14_Witness ==
    /\ db_lines = << <<" ", "2">>, <<"1", " ", "O">>, <<"7">> >>
    /\ db.ret.done /\ IsPanic(db.ret.res)
    /\ db.result = << <<U32(1), <<"O">> >> >>

----------------------------------------------------------------------------
(* Properties of parse_int                                                 *)

\* the digits of a text as values, and whether the text is a numeral of the base
DigitValues(text) == [n \in 1..Len(text) |-> DigitValue(text[n])]
IsNumeral(text, base) ==
    text # <<>> /\ \A n \in 1..Len(text) : DigitValue(text[n]) \in 0..(base - 1)

RECURSIVE StripZeros(_)
StripZeros(ds) == IF ds # <<>> /\ Head(ds) = 0 THEN StripZeros(Tail(ds)) ELSE ds

\* u32::MAX written in the base
MaxNumeral(base) ==
    CASE base = 10 -> <<4, 2, 9, 4, 9, 6, 7, 2, 9, 5>>
      [] base = 16 -> <<15, 15, 15, 15, 15, 15, 15, 15>>
      [] base = 8 -> <<3, 7, 7, 7, 7, 7, 7, 7, 7, 7, 7>>

\* a <= b for numerals of the same length
RECURSIVE LexLeq(_, _)
LexLeq(a, b) ==
    \/ a = <<>>
    \/ Head(a) < Head(b)
    \/ Head(a) = Head(b) /\ LexLeq(Tail(a), Tail(b))

\* the numeral's value is at most 2^32 - 1
FitsU32(ds, base) ==
    \/ Len(ds) < Len(MaxNumeral(base))
    \/ Len(ds) = Len(MaxNumeral(base)) /\ LexLeq(ds, MaxNumeral(base))

\* a u32 written in the base, without leading zeros
RECURSIVE Numeral(_, _)
Numeral(v, base) ==
    IF v = Zero THEN <<>>
    ELSE LET carry == (v.hi % base) * Limb + v.lo
         IN Append(Numeral([hi |-> v.hi \div base, lo |-> carry \div base], base),
                   carry % base)

\* the value the grammar gives a numeral: Ok(value) when it fits, else a ParseInt error
GrammarAgrees(text, base, res) ==
    IF IsNumeral(text, base) /\ FitsU32(StripZeros(DigitValues(text)), base)
    THEN res.ok /\ Numeral(res.val, base) = StripZeros(DigitValues(text))
    ELSE ~res.ok /\ res.err.kind = "ParseInt"

\* the grammar of the integer literal
Grammar(tok, res) ==
    IF tok = <<"0">> THEN res = Ok(Zero)
    ELSE IF Len(tok) >= 2 /\ tok[1] = "0" /\ tok[2] = "x"
    THEN GrammarAgrees(SubSeq(tok, 3, Len(tok)), 16, res)
    ELSE IF Len(tok) >= 1 /\ tok[1] = "0"
    THEN GrammarAgrees(SubSeq(tok, 2, Len(tok)), 8, res)
    ELSE GrammarAgrees(tok, 10, res)

\* C9 as stated: parse_int implements the grammar on every token: "0" is 0,
\* "0x..." is the base-16 value of the rest, "0..." the base-8 value of the text
\* after the 0, any other token its base-10 value; a token with no value under that
\* rule (a non-digit in it), or a value above 2^32 - 1, fails with ParseInt.
C9_Grammar == pi_ret.done => Grammar(pi_input, pi_ret.res)

\* the text of a numeral without the '+' that may precede it
Unsigned(text) == IF text # <<>> /\ Head(text) = "+" THEN Tail(text) ELSE text

\* the grammar, with one '+' allowed in front of the digits of each form
GrammarWithSign(tok, res) ==
    IF tok = <<"0">> THEN res = Ok(Zero)
    ELSE IF Len(tok) >= 2 /\ tok[1] = "0" /\ tok[2] = "x"
    THEN GrammarAgrees(Unsigned(SubSeq(tok, 3, Len(tok))), 16, res)
    ELSE IF Len(tok) >= 1 /\ tok[1] = "0"
    THEN GrammarAgrees(Unsigned(SubSeq(tok, 2, Len(tok))), 8, res)
    ELSE GrammarAgrees(Unsigned(tok), 10, res)

\* C9, amended: parse_int implements the grammar on every token, where the digits
\* handed to the base conversion may be preceded by one '+', which is ignored
\* ("+42", "0+17", "0x+1A" give 42, 15, 26); every other token with no value
\* under the rule, or a value above 2^32 - 1, fails with ParseInt.
C9_GrammarWithSign ==
    pi_ret.done =>
        /\ GrammarWithSign(pi_input, pi_ret.res)
        /\ pi_input = <<"0">> => pi_ret.res = Ok(U32(0))
        /\ pi_input = <<"0", "x", "1", "A">> => pi_ret.res = Ok(U32(26))
        /\ pi_input = <<"0", "1", "7">> => pi_ret.res = Ok(U32(15))
        /\ pi_input = <<"0", "8">> => pi_ret.res = Err(ParseIntError("InvalidDigit"))

C9_Witness ==
    /\ pi_ret.done
    /\ pi_input = <<"0", "x", "+", "1", "A">>
    /\ pi_ret.res = Ok(U32(26))

----------------------------------------------------------------------------
(* Properties of from_file: auxiliary files, skipped lines, errors         *)

\* the entry-names line has been consumed and names a file whose lines all decode
EntryNamesFile == Trim(sig[6])
EntryNamesReadable ==
    /\ Len(sig) >= 6
    /\ EntryNamesFile \in FileNames
    /\ \A n \in 1..Len(FileContents(EntryNamesFile)) :
          FileContents(EntryNamesFile)[n] # BadUtf8

\* C13: when an entry-names file is referenced, entry_names is the sequence of all
\* physical lines of the file in order, untrimmed, blank and '#' lines kept, so its
\* length is the file's line count, whatever the module's entry_count is.
C13_EntryNamesAllLines ==
    EntryNamesReadable =>
        /\ ~(Failed /\ read_state = "ReadEntryNames")
        /\ result.entry_names.some
        /\ Len(result.entry_names.val) = Len(FileContents(EntryNamesFile))
        /\ \A n \in 1..Len(FileContents(EntryNamesFile)) :
              result.entry_names.val[n] = FileContents(EntryNamesFile)[n]
        /\ Succeeded => ret.res.val.entry_names = result.entry_names

C13_Witness ==
    /\ Succeeded
    /\ ret.res.val.entry_count = U32(3)
    /\ ret.res.val.entry_names =
          Some(<< <<"A", "l">>, <<" ">>, <<"#", "x">>, <<" ", "B", " ">> >>)

\* the read states in their forward order, and the state that follows each
StateOrder ==
    <<"ReadVersion", "ReadDescription", "ReadRootOffset", "ReadEntryCount",
      "ReadEntryLength", "ReadEntryNames", "ReadCharset", "ReadNextComponentDescription",
      "ReadComponentOffset", "ReadComponentLength", "ReadComponentKind",
      "ReadComponentDropboxEntriesAndEnd">>
Follows(rs, next) ==
    \E n \in 1..Len(StateOrder) :
        /\ StateOrder[n] = rs
        /\ next = IF n = Len(StateOrder) THEN "ReadNextComponentDescription"
                  ELSE StateOrder[n + 1]

\* a line that is blank or whose first non-whitespace character is '#'
BlankOrComment(raw) == TrimStart(raw) = <<>> \/ Head(TrimStart(raw)) = "#"

\* C15: in every state a blank line or a comment leaves the read state, the Module
\* and the pending component fields unchanged and is never handed to a state's arm;
\* the state moves only on a significant line, one step forward per accepted line,
\* and backwards only from ReadComponentDropboxEntriesAndEnd to
\* ReadNextComponentDescription.
C15_SkippedLinesInert ==
    [][/\ (i' = i + 1 /\ sig' = sig /\ ret' = Running) =>
             /\ skipped' = skipped + 1
             /\ UNCHANGED <<read_state, result, current_component_desc,
                            current_component_offset, current_component_length,
                            current_component_kind_str, opened>>
       /\ sig' # sig =>
             /\ i' = i + 1 /\ Len(sig') = Len(sig) + 1
             /\ ~BlankOrComment(sig'[Len(sig')])
       /\ (sig' # sig /\ ret' = Running) => Follows(read_state, read_state')
       /\ read_state' # read_state => sig' # sig /\ ret' = Running]_vars

\* one line was skipped on the way to the fifth line of the second record
C15_Witness ==
    /\ ret = Running
    /\ skipped = 1 /\ i = Len(sig) + 1
    /\ read_state = "ReadComponentDropboxEntriesAndEnd"
    /\ Len(result.components) = 1
    /\ current_component_kind_str = Some(<<" ", "N", "D", "D", "U", " ">>)

\* the fifth line of a record is being consumed and the record's kind token is
\* none of the two dropbox tokens
PlainFifthLine ==
    /\ read_state = "ReadComponentDropboxEntriesAndEnd"
    /\ sig' # sig
    /\ Trim(current_component_kind_str.val) \notin DropboxTokens

\* C16: for a record whose kind is one of the five non-dropbox kinds the fifth line
\* is consumed and the file it names is never opened: the component built and the
\* outcome are the same whether the line is NULL, a missing file or a malformed
\* dropbox file; for an unrecognized kind the file is not opened either and the
\* result is InvalidComponentKind.
C16_PlainKindsIgnoreFile ==
    [][PlainFifthLine =>
          /\ opened' = opened
          /\ i' = i + 1
          /\ IF Trim(current_component_kind_str.val) \in KindTokens
             THEN /\ ret' = Running
                  /\ read_state' = "ReadNextComponentDescription"
                  /\ result'.components =
                        Append(result.components,
                               [description |-> current_component_desc.val,
                                offset |-> current_component_offset,
                                length |-> current_component_length,
                                kind |-> KindFor(Trim(current_component_kind_str.val), NULL)])
             ELSE /\ ret' = Returned(Err(InvalidComponentKind))
                  /\ result' = result]_vars

\* a NEDS record naming a missing file and a TEXT record naming a dropbox file with
\* one line too many were both built, and neither file was opened
C16_Witness ==
    /\ Succeeded
    /\ Records = 2
    /\ Trim(RecordLine(1, 4)) = NEDS /\ RecordLine(1, 5) = <<"x">>
    /\ Trim(RecordLine(2, 4)) = TEXT /\ RecordLine(2, 5) = <<"t">>
    /\ ret.res.val.components[1].kind = Number("DecSigned")
    /\ ret.res.val.components[2].kind = Text
    /\ \A n \in 1..Len(opened) : opened[n] \notin {<<"x">>, <<"t">>}

\* the place (1..5) of the n-th significant line in its component record
PlaceInRecord(n) == ((n - HeaderLines - 1) % RecordLines) + 1

\* an error arises at the n-th significant line: in the line itself, or in the
\* auxiliary file that is processed when the line is reached
ErrorAt(n) ==
    IF n = 1 THEN Trim(sig[n]) # <<"1">>
    ELSE IF n \in {3, 4, 5} THEN ~parse_int(Trim(sig[n])).ok
    ELSE IF n = 6 THEN ~read_module_entries(get_full_filename(Trim(sig[n]))).ok
    ELSE IF n = 7 THEN Trim(sig[n]) # NULL /\ ~read_charset(Trim(sig[n])).ok
    ELSE IF n > HeaderLines /\ PlaceInRecord(n) \in {2, 3} THEN ~parse_int(Trim(sig[n])).ok
    ELSE IF n > HeaderLines /\ PlaceInRecord(n) = RecordLines
    THEN ~build_component(<<>>, Zero, Zero, sig[n - 1],
                          get_full_filename(Trim(sig[n]))).res.ok
    ELSE FALSE

\* C17: parsing is fail-fast.  A line at which an error arises is the last line
\* examined and makes the call fail; after the call has returned no line is taken
\* and no file opened; an auxiliary file is opened only in the step that consumes
\* the line naming it; a failed call returns no Module.
C17_FailFast ==
    /\ [](\A n \in 1..Len(sig) : ErrorAt(n) => Failed /\ Len(sig) = n)
    /\ [](Failed => "val" \notin DOMAIN ret.res)
    /\ [](ret = Running => \A n \in 1..Len(sig) : ~ErrorAt(n))
    /\ [][/\ ret.done => UNCHANGED <<i, sig, skipped, opened, ret, result, read_state>>
          /\ opened' # opened => ret = Running /\ Len(sig') = Len(sig) + 1]_vars

\* the parse stopped inside the charset file k, at its second line: the entry-names
\* file and the charset file were opened, nothing after them
C17_Witness ==
    /\ Len(sig) = HeaderLines
    /\ opened = << <<"n">>, <<"k">> >>
    /\ ret = Returned(Err(Located(<<"k">>, 2, ParseIntError("InvalidDigit"))))
    /\ result.entry_names.some /\ result.charset = None

----------------------------------------------------------------------------
(* Properties of read_charset                                              *)

RECURSIVE CountOf(_, _)
CountOf(s, c) ==
    IF s = <<>> THEN 0 ELSE (IF Head(s) = c THEN 1 ELSE 0) + CountOf(Tail(s), c)

\* the text left and right of the first '=' of a line, both trimmed
LeftOf(raw) == Trim(SubSeq(Trim(raw), 1, IndexOf(Trim(raw), "=", 1) - 1))
RightOf(raw) == Trim(SubSeq(Trim(raw), IndexOf(Trim(raw), "=", 1) + 1, Len(Trim(raw))))

\* a text that is a base-16 numeral of at most 32 bits, and the byte it lands on
ValidKey(text) ==
    /\ IsNumeral(Unsigned(text), 16)
    /\ FitsU32(StripZeros(DigitValues(Unsigned(text))), 16)
ByteOf(text) ==
    (IF Len(text) >= 2 /\ text[Len(text) - 1] # "+"
     THEN 16 * DigitValue(text[Len(text) - 1]) ELSE 0) + DigitValue(text[Len(text)])
\* the character a line gives its key
CharOf(raw) == IF RightOf(raw) = <<>> THEN "\\x00" ELSE RightOf(raw)[1]

\* the last line read, and whether the reader failed on it
LastCs == cs_lines[Len(cs_lines)]
CsFailedAtLast == cs_lines # <<>> /\ cs.ret.done /\ ~cs.ret.res.ok
CsInvalidAtLast ==
    cs.ret.done /\ cs.ret.res = Err(Located(CsPath, Len(cs_lines), InvalidCharset))

\* C11 as stated: a charset line is split on its first '=', and fails with a
\* Located InvalidCharset exactly when that gives no two parts; a line with a valid
\* hex key, an '=' and a right side holding further '=' ("3D==", "41=A=B") is
\* accepted and maps the key to the first character of the right side.
C11_SplitFirst ==
    (cs_lines # <<>> /\ LastCs # BadUtf8) =>
        /\ CsInvalidAtLast <=> (CountOf(LastCs, "=") = 0)
        /\ (CountOf(LastCs, "=") >= 1 /\ ValidKey(LeftOf(LastCs))) =>
              /\ ~CsFailedAtLast
              /\ cs.result[ByteOf(LeftOf(LastCs))] = CharOf(LastCs)

\* C11, amended: a charset line is split on every '=', and fails with a Located
\* InvalidCharset (this file, this line) exactly when it does not hold exactly one
\* '=': a line with none fails, and so does a line whose right side holds further
\* '=' ("3D==", "41=A=B"); a line with one '=' and a valid hex key is accepted and
\* maps the key to the first character of the trimmed right side.
C11_SplitEvery ==
    (cs_lines # <<>> /\ LastCs # BadUtf8) =>
        /\ CsInvalidAtLast <=> (CountOf(LastCs, "=") # 1)
        /\ (CountOf(LastCs, "=") = 1 /\ ValidKey(LeftOf(LastCs))) =>
              /\ ~CsFailedAtLast
              /\ cs.result[ByteOf(LeftOf(LastCs))] = CharOf(LastCs)
        /\ LastCs \in {<<"3", "D", "=", "=">>, <<"4", "1", "=", "A", "=", "B">>, <<"4", "1">>}
              => CsInvalidAtLast

C11_Witness ==
    /\ cs_lines = << <<"4", "2", "=">>, <<"4", "1", "=", "A", "=", "B">> >>
    /\ cs.ret = Returned(Err(Located(CsPath, 2, InvalidCharset)))

\* every line read so far is a valid charset line
ValidCsLine(raw) == raw # BadUtf8 /\ CountOf(raw, "=") = 1 /\ ValidKey(LeftOf(raw))
AllValidCs == \A n \in 1..Len(cs_lines) : ValidCsLine(cs_lines[n])
\* the charset file could not be opened
CsOpenFailed == cs_lines = <<>> /\ cs.ret = Returned(Err(Io))
\* line n is the last line of the file so far that names its byte
LastNaming(n) ==
    \A m \in (n + 1)..Len(cs_lines) :
        ByteOf(LeftOf(cs_lines[m])) # ByteOf(LeftOf(cs_lines[n]))

\* C12: for a sequence of valid charset lines the map sends each byte key to the
\* character of the last line that names the key, an empty right side gives the
\* null character and is no failure, and keys no line names are absent.
C12_LastWriteWins ==
    (AllValidCs /\ ~CsOpenFailed) =>
        /\ ~CsFailedAtLast
        /\ DOMAIN cs.result = {ByteOf(LeftOf(cs_lines[n])) : n \in 1..Len(cs_lines)}
        /\ \A n \in 1..Len(cs_lines) :
              LastNaming(n) => cs.result[ByteOf(LeftOf(cs_lines[n]))] = CharOf(cs_lines[n])
        /\ \A n \in 1..Len(cs_lines) :
              (LastNaming(n) /\ RightOf(cs_lines[n]) = <<>>)
                  => cs.result[ByteOf(LeftOf(cs_lines[n]))] = NulChar
        /\ cs.ret.done => cs.ret.res = Ok(cs.result)

C12_Witness ==
    /\ cs_lines = << <<"4", "1", "=", "A">>, <<" ", "4", "1", " ", "=", " ", "B", "c", " ">>,
                     <<"4", "2", "=">> >>
    /\ cs.ret.done /\ cs.ret.res.ok
    /\ cs.ret.res.val = (65 :> "B") @@ (66 :> NulChar)

\* C20: a charset key is read as a base-16 u32, never by the integer-literal rule
\* ("010" is 0x10, a "0x" prefix is rejected), and reduced modulo 256: a key above
\* FF ("141") is accepted and lands on byte (value mod 256), where it overwrites an
\* entry written under another literal key.
C20_KeyBase16 ==
    (cs_lines # <<>> /\ LastCs # BadUtf8 /\ CountOf(LastCs, "=") = 1) =>
        /\ IF ValidKey(LeftOf(LastCs))
           THEN ~CsFailedAtLast /\ ByteOf(LeftOf(LastCs)) \in DOMAIN cs.result
           ELSE /\ cs.ret.done /\ ~cs.ret.res.ok
                /\ cs.ret.res.err.kind = "Located"
                /\ cs.ret.res.err.filename = CsPath
                /\ cs.ret.res.err.line = Len(cs_lines)
                /\ cs.ret.res.err.source.kind = "ParseInt"
        /\ LastCs = <<"0", "1", "0", "=", "D">> => cs.result[16] = "D"
        /\ LastCs = <<"1", "4", "1", "=", "C">> => cs.result[65] = "C"
        /\ LastCs = <<"0", "x", "4", "1", "=", "E">> => CsFailedAtLast
        /\ DOMAIN cs.result \subseteq 0..255

C20_Witness ==
    /\ cs_lines = << <<"4", "1", "=", "A">>, <<"1", "4", "1", "=", "C">> >>
    /\ cs.ret.done /\ cs.ret.res.ok
    /\ cs.ret.res.val = (65 :> "C")

----------------------------------------------------------------------------
(* Properties of the located errors of from_file                           *)

\* from_file failed with a Located error
FailedLocated == Failed /\ ~IsPanic(ret.res) /\ ret.res.err.kind = "Located"

\* the file whose line was being processed when the call failed
FileAtFailure ==
    IF read_state = "ReadCharset" THEN Trim(sig[Len(sig)])
    ELSE IF read_state = "ReadComponentDropboxEntriesAndEnd" THEN Trim(sig[Len(sig)])
    ELSE ModulePath

\* C18: a Located error carries the path of the file whose own line failed (the
\* module file for its integer fields, the charset or dropbox-entries file for
\* their lines) and its source is never itself Located.
C18_LocatedOnce ==
    FailedLocated =>
        /\ ret.res.err.source.kind # "Located"
        /\ ret.res.err.filename = FileAtFailure
        /\ ret.res.err.filename = ModulePath <=>
              read_state \in {"ReadRootOffset", "ReadEntryCount", "ReadEntryLength",
                              "ReadComponentOffset", "ReadComponentLength"}
        /\ ret.res.err.filename # ModulePath => ret.res.err.filename \in FileNames

\* the charset file k failed at its own second line
C18_Witness ==
    /\ FailedLocated
    /\ read_state = "ReadCharset"
    /\ ret.res.err = Located(<<"k">>, 2, ParseIntError("InvalidDigit"))

\* the first line of a file, as a charset file or as a dropbox file, that does
\* not pass
BadCsLine(raw) == raw = BadUtf8 \/ ~ValidCsLine(raw)
BadDbLine(lines, n) ==
    IF n = 1 THEN lines[n] = BadUtf8 \/ ~parse_int(Trim(lines[n])).ok
    ELSE ~WellFormed(lines[n])
FirstBadCs(lines) ==
    CHOOSE n \in 1..Len(lines) :
        BadCsLine(lines[n]) /\ \A m \in 1..(n - 1) : ~BadCsLine(lines[m])
FirstBadDb(lines) ==
    CHOOSE n \in 1..Len(lines) :
        BadDbLine(lines, n) /\ \A m \in 1..(n - 1) : ~BadDbLine(lines, m)

\* C19: the line of a Located error from the module file is the 1-based physical
\* position of the failing line, skipped blank and comment lines counted; in a
\* charset or dropbox-entries file it is the 1-based physical line index, the
\* dropbox header being line 1.
C19_PhysicalLine ==
    FailedLocated =>
        IF ret.res.err.filename = ModulePath
        THEN /\ ret.res.err.line = Len(sig) + skipped
             /\ ret.res.err.line = i
        ELSE IF read_state = "ReadCharset"
        THEN ret.res.err.line = FirstBadCs(FileContents(ret.res.err.filename))
        ELSE ret.res.err.line = FirstBadDb(FileContents(ret.res.err.filename))

\* a skipped line lies before the component length "-1": the error names physical
\* line 11, the tenth significant line
C19_Witness ==
    /\ FailedLocated
    /\ skipped = 1
    /\ Len(sig) = 10
    /\ ret.res.err = Located(ModulePath, 11, ParseIntError("InvalidDigit"))

====
